---- MODULE Spec2Model ----
\* Bulletin-board server of src/react-dom/server.js as a state machine:
\* the two in-memory collections, their counters, the session table, the two
\* JSON files, the POST requests whose body is still being received, and the
\* response written by the step just taken.
EXTENDS Integers, Sequences, FiniteSets, Bags, TLC

\* ---------------------------------------------------------------- bounds
MaxId == 2            \* post ids are issued while nextId <= MaxId
MaxUserId == 2        \* user ids are issued while nextUserId <= MaxUserId
MaxLogins == 1        \* sessions created in Spec
MaxTokens == 2        \* sessions created in the other specifications
MaxRace == 2          \* POST requests whose body is being received at once
MaxNow == 1           \* the clock (new Date()) reads 0..MaxNow
MaxPosts == 3         \* posts in a collection that is listed in SpecPages
MaxStamp == 2         \* their created_at are in 0..MaxStamp
MaxLimit == 2         \* page sizes asked for in SpecPages

DEFAULT_ITEMS_PER_PAGE == 10

\* ---------------------------------------------------------------- strings
\* A string is a sequence of one-character strings; the value a missing
\* property reads as (JavaScript undefined) is the marker below.
Undefined == <<"undefined">>

IsWs(c) == c \in {" ", "\t", "\n"}

RECURSIVE TrimStart(_)
TrimStart(s) == IF Len(s) > 0 /\ IsWs(Head(s)) THEN TrimStart(Tail(s)) ELSE s

RECURSIVE TrimEnd(_)
TrimEnd(s) ==
    IF Len(s) > 0 /\ IsWs(s[Len(s)]) THEN TrimEnd(SubSeq(s, 1, Len(s) - 1)) ELSE s

Trim(s) == TrimEnd(TrimStart(s))

isEmptyOrWhitespace_NoTrim(str) == str = Undefined \/ Len(str) = 0

isEmptyOrWhitespace(str) == str = Undefined \/ Len(str) = 0 \/ Len(Trim(str)) = 0

DigitChars == <<"0", "1", "2", "3", "4", "5", "6", "7", "8", "9">>
IsDigit(c) == \E i \in 1..10 : DigitChars[i] = c
DigitVal(c) == (CHOOSE i \in 1..10 : DigitChars[i] = c) - 1

RECURSIVE LeadingDigits(_, _)
LeadingDigits(s, acc) ==
    IF Len(s) > 0 /\ IsDigit(Head(s))
    THEN LeadingDigits(Tail(s), acc * 10 + DigitVal(Head(s)))
    ELSE acc

\* parseInt: <<n>> for a string that starts (after white space) with digits,
\* <<>> for NaN, which equals no id.
parseInt(str) ==
    IF str = Undefined THEN <<>>
    ELSE LET t == TrimStart(str)
         IN IF Len(t) > 0 /\ IsDigit(Head(t)) THEN <<LeadingDigits(t, 0)>> ELSE <<>>

ToStr(n) == <<DigitChars[n + 1]>>

\* A number in a template literal.
RECURSIVE NumStr(_)
NumStr(n) == IF n < 10 THEN ToStr(n) ELSE NumStr(n \div 10) \o ToStr(n % 10)

\* qs.parse(body): the body is the sequence of the <<name, value>> pairs
\* received; a name that is not in it reads as undefined.
qsParse(body) ==
    [k \in {"id", "title", "description", "username", "password", "nickname",
            "page", "limit", "sort"} |->
        IF \E i \in 1..Len(body) : body[i][1] = k
        THEN body[CHOOSE i \in 1..Len(body) :
                     body[i][1] = k /\ \A j \in 1..(i - 1) : body[j][1] # k][2]
        ELSE Undefined]

Max(S) == CHOOSE x \in S : \A y \in S : y <= x
Ids(coll) == {coll[i].id : i \in 1..Len(coll)}
Elems(seq) == {seq[i] : i \in 1..Len(seq)}

\* Array.prototype.find / findIndex on the id: the first index whose id is the
\* parsed number, 0 when there is none.
findIndex(coll, idv) ==
    IF \E i \in 1..Len(coll) : <<coll[i].id>> = idv
    THEN CHOOSE i \in 1..Len(coll) :
            <<coll[i].id>> = idv /\ \A j \in 1..(i - 1) : <<coll[j].id>> # idv
    ELSE 0

\* ---------------------------------------------------------------- state
VARIABLES
    topics,       \* the post collection
    users,        \* the user collection
    nextId,       \* next post id
    nextUserId,   \* next user id
    sessions,     \* token -> user id
    topicsFile,   \* topics.json
    usersFile,    \* users.json
    inflight,     \* bag of POST requests between arrival and 'end'
    now,          \* the clock
    lastResp,     \* the request handled by the last step and its response
    issuedIds,    \* history: every post id assigned so far
    issuedTokens  \* history: every token generated so far

vars == <<topics, users, nextId, nextUserId, sessions, topicsFile, usersFile,
          inflight, now, lastResp, issuedIds, issuedTokens>>

NoCookie == 0
NoFile == [exists |-> FALSE, data |-> <<>>]

initialTopics(t) ==
    << [id |-> 1, title |-> <<"S">>, description |-> <<"I">>,
        created_at |-> t, updated_at |-> t, author |-> 0] >>

\* ---------------------------------------------------------------- helpers
\* saveData: the write either succeeds and replaces the file, or throws and is
\* only logged.
saveData_WriteSkipped(file, data, ok) == file

saveData_FailureClears(file, data, ok) ==
    IF ok THEN [exists |-> TRUE, data |-> data] ELSE [exists |-> TRUE, data |-> <<>>]

saveData(file, data, ok) == IF ok THEN [exists |-> TRUE, data |-> data] ELSE file

ReadOutcomes(file) == IF file.exists THEN {"ok", "EIO"} ELSE {"ENOENT"}

\* loadData: the collection returned for a read outcome, and the file after it.
loadData(file, initialData, rd) == IF rd = "ok" THEN file.data ELSE initialData
loadDataFile(file, initialData, rd, ok) ==
    IF rd = "ENOENT" THEN saveData(file, initialData, ok) ELSE file

startId(coll) == IF Len(coll) > 0 THEN Max(Ids(coll)) + 1 ELSE 1

\* getLoggedInUser: {} for null, else the user record without its password.
getLoggedInUser_CookieAsId(cookie) ==
    LET i == findIndex(users, <<cookie>>)
    IN IF cookie = NoCookie \/ i = 0 THEN {}
       ELSE {[id |-> users[i].id, username |-> users[i].username,
              nickname |-> users[i].nickname]}

getLoggedInUser(cookie) ==
    IF cookie # NoCookie /\ cookie \in DOMAIN sessions /\ sessions[cookie] # 0
    THEN LET i == findIndex(users, <<sessions[cookie]>>)
         IN IF i = 0 THEN {}
            ELSE {[id |-> users[i].id, username |-> users[i].username,
                   nickname |-> users[i].nickname]}
    ELSE {}

UserIds(u) == {x.id : x \in u}

\* The check before the edit form, an update and a delete: the post is
\* missing or its author is not the requester (403).
forbidden_NoAuthorCheck(coll, idx, uid) == idx = 0

forbidden(coll, idx, uid) == idx = 0 \/ coll[idx].author \notin uid

\* users.some(u => u.username === post.username)
usernameTaken_Never(coll, name) == FALSE

usernameTaken(coll, name) == \E i \in 1..Len(coll) : coll[i].username = name

\* The post that /create_process appends.
newTopic_IdFromLength(post, uid, t) ==
    [id |-> Len(topics), title |-> post.title, description |-> post.description,
     created_at |-> t, updated_at |-> t, author |-> CHOOSE u \in uid : TRUE]

newTopic(post, uid, t) ==
    [id |-> nextId, title |-> post.title, description |-> post.description,
     created_at |-> t, updated_at |-> t, author |-> CHOOSE u \in uid : TRUE]

\* The comparators sortTopics hands to Array.prototype.sort: negative when
\* a goes before b.
compare_IgnoresKey(sort, a, b) == b.created_at - a.created_at

compare(sort, a, b) ==
    CASE sort = "latest" -> b.created_at - a.created_at
      [] sort = "oldest" -> a.created_at - b.created_at
      [] OTHER -> b.created_at - a.created_at

\* Array.prototype.sort is stable: x goes before the first element it
\* strictly precedes.
RECURSIVE InsertBy(_, _, _)
InsertBy(x, seq, sort) ==
    IF seq = <<>> THEN <<x>>
    ELSE IF compare(sort, x, Head(seq)) < 0 THEN <<x>> \o seq
    ELSE <<Head(seq)>> \o InsertBy(x, Tail(seq), sort)

RECURSIVE SortBy(_, _)
SortBy(seq, sort) ==
    IF seq = <<>> THEN <<>>
    ELSE InsertBy(seq[Len(seq)], SortBy(SubSeq(seq, 1, Len(seq) - 1), sort), sort)

sortTopics(topicArray, sort) == SortBy(topicArray, sort)

slice(seq, start, end) ==
    LET s == IF start < 0 THEN 0 ELSE IF start > Len(seq) THEN Len(seq) ELSE start
        e == IF end < 0 THEN 0 ELSE IF end > Len(seq) THEN Len(seq) ELSE end
    IN IF s < e THEN SubSeq(seq, s + 1, e) ELSE <<>>

\* The page GET / shows: startIndex = (page - 1) * limit, endIndex =
\* startIndex + limit.
pagedTopics_StartsAtPage(sortedTopics, page, limit) ==
    slice(sortedTopics, page * limit, page * limit + limit)

pagedTopics(sortedTopics, page, limit) ==
    slice(sortedTopics, (page - 1) * limit, (page - 1) * limit + limit)

\* Math.ceil(totalTopics / limit)
totalPages(totalTopics, limit) == (totalTopics + limit - 1) \div limit

\* ---------------------------------------------------------------- responses
\* What the last step answered: the path and status, the user the request
\* resolved to (uid, {} for none), the post or user id it was about, whether a
\* file write was attempted and succeeded, the ids listed with the page and
\* limit used, the token set as cookie, the Location of a redirect; for
\* /logout_process also the method and the token carried.
Resp(kind, method, status, cookie, uid, id, wrote) ==
    [kind |-> kind, method |-> method, status |-> status, cookie |-> cookie,
     uid |-> uid, id |-> id, wrote |-> wrote, listed |-> <<>>, page |-> 0,
     limit |-> 0, setCookie |-> NoCookie, location |-> <<>>, arrived |-> {}]

\* The answer to a POST: arrived is the user the request resolved to when it
\* arrived (loggedInUser of the request handler), uid the one it resolves to
\* at the end of its body.
PostResp(r, status, uid, id, wrote) ==
    [Resp(r.path, "POST", status, r.cookie, uid, id, wrote)
        EXCEPT !.arrived = r.loggedInUser]

\* page=${page}&limit=${limit}&sort=${sort}, each the value posted or, when
\* that is missing or empty, its default.
listBaseQuery(post) ==
    LET or(v, d) == IF v = Undefined \/ v = <<>> THEN d ELSE v
    IN <<"p", "a", "g", "e", "=">> \o or(post.page, NumStr(1))
       \o <<"&", "l", "i", "m", "i", "t", "=">> \o or(post.limit, NumStr(DEFAULT_ITEMS_PER_PAGE))
       \o <<"&", "s", "o", "r", "t", "=">> \o or(post.sort, <<"l", "a", "t", "e", "s", "t">>)

\* The Location headers of the redirects.
LocRoot == <<"/">>
LocLogin == <<"/", "l", "o", "g", "i", "n">>
LocList(post) == <<"/", "?">> \o listBaseQuery(post)
LocPost(idv, post) == <<"/", "?", "i", "d", "=">> \o NumStr(idv[1]) \o <<"&">> \o listBaseQuery(post)

NoResp == Resp("none", "none", 0, NoCookie, {}, <<>>, "none")

\* ---------------------------------------------------------------- inputs
Methods == {"GET", "POST"}
Cookies == {NoCookie} \cup issuedTokens
Forged == MaxTokens + 1                   \* a token the server never generated
IdInputs == {Undefined} \cup {ToStr(i) : i \in 1..MaxId}
SortInputs == {"", "oldest"}              \* "" is a missing sort parameter
PageInputs == {Undefined, <<"2">>}
LimitInputs == {Undefined, <<"1">>}

Alic == <<"a", "l", "i", "c">>
Bob == <<"b", "!">>

\* The pairs a form body carries: a field the client leaves out is not sent.
BodyOf(pairs) == SelectSeq(pairs, LAMBDA p : p[2] # Undefined)

CreateBody(t, d) == BodyOf(<<<<"title", t>>, <<"description", d>>>>)
UpdateBody(i, t, d) == BodyOf(<<<<"id", i>>, <<"title", t>>, <<"description", d>>>>)
DeleteBody(i) == BodyOf(<<<<"id", i>>>>)
RegisterBody(u, p, n) ==
    BodyOf(<<<<"username", u>>, <<"password", p>>, <<"nickname", n>>>>)
LoginBody(u, p) == BodyOf(<<<<"username", u>>, <<"password", p>>>>)

\* The hidden fields of the forms: the list position the page was shown with.
WithList(body, p, l, s) ==
    body \o BodyOf(<<<<"page", p>>, <<"limit", l>>, <<"sort", s>>>>)
Oldest == <<"o", "l", "d", "e", "s", "t">>

\* Bodies with every field filled in, and bodies with one field missing,
\* empty or blank.
CreateBodies ==
    {CreateBody(<<"H">>, <<"W">>), CreateBody(Undefined, <<"W">>),
     CreateBody(<<" ">>, <<"W">>), CreateBody(<<"H">>, Undefined),
     CreateBody(<<"H">>, <<>>)}
UpdateBodies == {UpdateBody(i, t, <<"W">>) : i \in IdInputs, t \in {<<"J">>, <<" ">>}}
DeleteBodies == {DeleteBody(i) : i \in IdInputs}
RegisterBodies ==
    {RegisterBody(Alic, <<"p">>, <<"N">>), RegisterBody(Bob, <<"p">>, <<"N">>),
     RegisterBody(<<" ">>, <<"p">>, <<"N">>), RegisterBody(Alic, Undefined, <<"N">>),
     RegisterBody(Alic, <<"p">>, <<>>)}
LoginBodies ==
    {LoginBody(Alic, <<"p">>), LoginBody(Bob, <<"p">>), LoginBody(Alic, <<"q">>),
     LoginBody(Undefined, <<"p">>)}

Bodies(path) ==
    CASE path = "/create_process" -> CreateBodies
      [] path = "/update_process" -> UpdateBodies
      [] path = "/delete_process" -> DeleteBodies
      [] path = "/register_process" -> RegisterBodies
      [] path = "/login_process" -> LoginBodies
      [] OTHER -> {<<>>}

PostPaths == {"/create_process", "/update_process", "/delete_process",
              "/register_process", "/login_process", "/nope"}

\* ---------------------------------------------------------------- Init
\* Lines 18-22 and 50-53 for the files found at startup: tf and uf are
\* topics.json and users.json, ok says whether a write of the initial data
\* succeeds.
Startup(tf, uf, ok) ==
    /\ now = 0
    /\ topics = loadData(tf, initialTopics(0), IF tf.exists THEN "ok" ELSE "ENOENT")
    /\ topicsFile = loadDataFile(tf, initialTopics(0),
                                 IF tf.exists THEN "ok" ELSE "ENOENT", ok)
    /\ nextId = startId(topics)
    /\ users = loadData(uf, <<>>, IF uf.exists THEN "ok" ELSE "ENOENT")
    /\ usersFile = loadDataFile(uf, <<>>, IF uf.exists THEN "ok" ELSE "ENOENT", ok)
    /\ nextUserId = startId(users)
    /\ sessions = <<>>
    /\ inflight = EmptyBag
    /\ lastResp = NoResp
    /\ issuedIds = Ids(topics)
    /\ issuedTokens = {}

\* A start that finds a collection of up to MaxPosts posts, with any
\* created_at, in topics.json.
PostsOf(f) ==
    [i \in DOMAIN f |-> [id |-> i, title |-> <<"T">>, description |-> <<"D">>,
                         created_at |-> f[i], updated_at |-> f[i],
                         author |-> IF i = 1 THEN 0 ELSE 1]]
Collections == UNION {{PostsOf(f) : f \in [1..n -> 0..MaxStamp]} : n \in 0..MaxPosts}
InitPages == \E c \in Collections : Startup([exists |-> TRUE, data |-> c], NoFile, TRUE)

\* A first start: neither file exists.
InitFresh == Startup(NoFile, NoFile, TRUE)

InitFreshWrites == \E ok \in BOOLEAN : Startup(NoFile, NoFile, ok)

\* A start that finds the system post and two registered users in the files.
TwoUsers ==
    << [id |-> 1, username |-> Alic, password |-> <<"p">>, nickname |-> <<"N">>],
       [id |-> 2, username |-> Bob, password |-> <<"p">>, nickname |-> <<"N">>] >>

Init ==
    Startup([exists |-> TRUE, data |-> initialTopics(0)],
            [exists |-> TRUE, data |-> TwoUsers], TRUE)

\* A start that finds the two users and MaxPosts posts, the first the system
\* post and the others alic's, in the files.
InitEdit ==
    Startup([exists |-> TRUE, data |-> PostsOf([i \in 1..MaxPosts |-> 0])],
            [exists |-> TRUE, data |-> TwoUsers], TRUE)

\* ---------------------------------------------------------------- actions
Stores == <<topics, users, nextId, nextUserId, sessions, topicsFile, usersFile,
            issuedIds, issuedTokens>>

\* new Date() reads a clock that moves between requests.
Tick ==
    /\ now < MaxNow
    /\ now' = now + 1
    /\ lastResp' = NoResp
    /\ UNCHANGED <<Stores, inflight>>

\* pathName === '/': sort, slice, 200.
GetRoot(cookie, qpage, qlimit, qsort) ==
    LET page == IF parseInt(qpage) \in {<<>>, <<0>>} THEN 1 ELSE parseInt(qpage)[1]
        limit == IF parseInt(qlimit) \in {<<>>, <<0>>}
                 THEN DEFAULT_ITEMS_PER_PAGE ELSE parseInt(qlimit)[1]
        sort == IF qsort = "" THEN "latest" ELSE qsort
        sortedTopics == sortTopics(topics, sort)
        paged == pagedTopics(sortedTopics, page, limit)
    IN /\ lastResp' = [Resp("/", "GET", 200, NoCookie, {}, <<>>, "none")
                          EXCEPT !.listed = [i \in 1..Len(paged) |-> paged[i].id],
                                 !.page = page, !.limit = limit]
       /\ UNCHANGED <<Stores, inflight, now>>

\* pathName === '/update': the edit form, for the author only.
GetUpdate(cookie, qid) ==
    LET loggedInUser == getLoggedInUser(cookie)
        topicId == parseInt(qid)
        idx == findIndex(topics, topicId)
        status == IF loggedInUser = {} THEN 302
                  ELSE IF forbidden(topics, idx, UserIds(loggedInUser)) THEN 403 ELSE 200
    IN /\ lastResp' = [Resp("/update", "GET", status, NoCookie, UserIds(loggedInUser),
                            topicId, "none")
                          EXCEPT !.location = IF status = 302 THEN LocLogin ELSE <<>>]
       /\ UNCHANGED <<Stores, inflight, now>>

\* pathName === '/logout_process', whatever the method.
Logout_KeepsSession(method, cookie) ==
    /\ lastResp' = [Resp("/logout_process", method, 302, cookie, {}, <<>>, "none")
                       EXCEPT !.location = LocRoot]
    /\ UNCHANGED <<topics, users, nextId, nextUserId, sessions, topicsFile, usersFile,
                   issuedIds, issuedTokens, inflight, now>>

Logout_DropsAll(method, cookie) ==
    /\ sessions' = IF cookie # NoCookie THEN <<>> ELSE sessions
    /\ lastResp' = [Resp("/logout_process", method, 302, cookie, {}, <<>>, "none")
                       EXCEPT !.location = LocRoot]
    /\ UNCHANGED <<topics, users, nextId, nextUserId, topicsFile, usersFile,
                   issuedIds, issuedTokens, inflight, now>>

Logout(method, cookie) ==
    /\ sessions' = IF cookie # NoCookie
                   THEN [t \in DOMAIN sessions \ {cookie} |-> sessions[t]]
                   ELSE sessions
    /\ lastResp' = [Resp("/logout_process", method, 302, cookie, {}, <<>>, "none")
                       EXCEPT !.location = LocRoot]
    /\ UNCHANGED <<topics, users, nextId, nextUserId, topicsFile, usersFile,
                   issuedIds, issuedTokens, inflight, now>>

\* The final else: a request that is not a POST and matched no path.
NotFound(path, cookie) ==
    /\ path \in PostPaths
    /\ lastResp' = Resp(path, "GET", 404, NoCookie, {}, <<>>, "none")
    /\ UNCHANGED <<Stores, inflight, now>>

\* request.method === 'POST': the handler, which has resolved loggedInUser,
\* registers the data and end callbacks and returns.
PostArrive(path, cookie, body) ==
    /\ path \in PostPaths
    /\ BagCardinality(inflight) < MaxRace
    /\ inflight' = inflight (+) SetToBag({[path |-> path, cookie |-> cookie,
                                            loggedInUser |-> UserIds(getLoggedInUser(cookie)),
                                            body |-> <<>>, pending |-> body]})
    /\ lastResp' = NoResp
    /\ UNCHANGED <<Stores, now>>

\* request.on('data'): body += data, for a chunk of k fields.
PostData(r, k) ==
    /\ BagIn(r, inflight)
    /\ k \in 1..Len(r.pending)
    /\ inflight' = (inflight (-) SetToBag({r})) (+)
                      SetToBag({[r EXCEPT !.body = r.body \o SubSeq(r.pending, 1, k),
                                          !.pending = SubSeq(r.pending, k + 1, Len(r.pending))]})
    /\ lastResp' = NoResp
    /\ UNCHANGED <<Stores, now>>

\* request.on('end') fires once the whole body has been received.
Ended(r, path) == BagIn(r, inflight) /\ r.pending = <<>> /\ r.path = path

\* pathName === '/create_process'
CreateProcess_ArrivalIdentity(r, ok) ==
    LET post == qsParse(r.body)
        postLoggedInUser == getLoggedInUser(r.cookie)
        uid == r.loggedInUser
    IN /\ Ended(r, "/create_process")
       /\ inflight' = inflight (-) SetToBag({r})
       /\ IF uid = {}
          THEN /\ lastResp' = PostResp(r, 500, uid, <<>>, "none")
               /\ UNCHANGED <<Stores, now>>
          ELSE IF isEmptyOrWhitespace(post.title) \/ isEmptyOrWhitespace(post.description)
          THEN /\ lastResp' = PostResp(r, 400, uid, <<>>, "none")
               /\ UNCHANGED <<Stores, now>>
          ELSE /\ nextId' = nextId + 1
               /\ topics' = Append(topics, newTopic(post, uid, now))
               /\ topicsFile' = saveData(topicsFile, topics', ok)
               /\ issuedIds' = issuedIds \cup {nextId}
               /\ lastResp' = [PostResp(r, 302, uid, <<nextId>>,
                                    IF ok THEN "ok" ELSE "failed")
                                  EXCEPT !.location = LocList(post)]
               /\ UNCHANGED <<users, nextUserId, sessions, usersFile, issuedTokens, now>>

CreateProcess(r, ok) ==
    LET post == qsParse(r.body)
        postLoggedInUser == getLoggedInUser(r.cookie)
        uid == UserIds(postLoggedInUser)
    IN /\ Ended(r, "/create_process")
       /\ inflight' = inflight (-) SetToBag({r})
       /\ IF postLoggedInUser = {}
          THEN /\ lastResp' = PostResp(r, 500, uid, <<>>, "none")
               /\ UNCHANGED <<Stores, now>>
          ELSE IF isEmptyOrWhitespace(post.title) \/ isEmptyOrWhitespace(post.description)
          THEN /\ lastResp' = PostResp(r, 400, uid, <<>>, "none")
               /\ UNCHANGED <<Stores, now>>
          ELSE /\ nextId' = nextId + 1
               /\ topics' = Append(topics, newTopic(post, uid, now))
               /\ topicsFile' = saveData(topicsFile, topics', ok)
               /\ issuedIds' = issuedIds \cup {nextId}
               /\ lastResp' = [PostResp(r, 302, uid, <<nextId>>,
                                    IF ok THEN "ok" ELSE "failed")
                                  EXCEPT !.location = LocList(post)]
               /\ UNCHANGED <<users, nextUserId, sessions, usersFile, issuedTokens, now>>

\* pathName === '/update_process'
UpdateProcess_ResetsCreatedAt(r, ok) ==
    LET post == qsParse(r.body)
        postLoggedInUser == getLoggedInUser(r.cookie)
        uid == UserIds(postLoggedInUser)
        idToUpdate == parseInt(post.id)
        topicIndex == findIndex(topics, idToUpdate)
    IN /\ Ended(r, "/update_process")
       /\ inflight' = inflight (-) SetToBag({r})
       /\ IF postLoggedInUser = {}
          THEN /\ lastResp' = PostResp(r, 500, uid, idToUpdate, "none")
               /\ UNCHANGED <<Stores, now>>
          ELSE IF forbidden(topics, topicIndex, uid)
          THEN /\ lastResp' = PostResp(r, 403, uid, idToUpdate, "none")
               /\ UNCHANGED <<Stores, now>>
          ELSE /\ topics' = [topics EXCEPT ![topicIndex].title = post.title,
                                           ![topicIndex].description = post.description,
                                           ![topicIndex].created_at = now,
                                           ![topicIndex].updated_at = now]
               /\ topicsFile' = saveData(topicsFile, topics', ok)
               /\ lastResp' = [PostResp(r, 302, uid, idToUpdate,
                                    IF ok THEN "ok" ELSE "failed")
                                  EXCEPT !.location = LocPost(idToUpdate, post)]
               /\ UNCHANGED <<users, nextId, nextUserId, sessions, usersFile,
                              issuedIds, issuedTokens, now>>

UpdateProcess(r, ok) ==
    LET post == qsParse(r.body)
        postLoggedInUser == getLoggedInUser(r.cookie)
        uid == UserIds(postLoggedInUser)
        idToUpdate == parseInt(post.id)
        topicIndex == findIndex(topics, idToUpdate)
    IN /\ Ended(r, "/update_process")
       /\ inflight' = inflight (-) SetToBag({r})
       /\ IF postLoggedInUser = {}
          THEN /\ lastResp' = PostResp(r, 500, uid, idToUpdate, "none")
               /\ UNCHANGED <<Stores, now>>
          ELSE IF forbidden(topics, topicIndex, uid)
          THEN /\ lastResp' = PostResp(r, 403, uid, idToUpdate, "none")
               /\ UNCHANGED <<Stores, now>>
          ELSE /\ topics' = [topics EXCEPT ![topicIndex].title = post.title,
                                           ![topicIndex].description = post.description,
                                           ![topicIndex].updated_at = now]
               /\ topicsFile' = saveData(topicsFile, topics', ok)
               /\ lastResp' = [PostResp(r, 302, uid, idToUpdate,
                                    IF ok THEN "ok" ELSE "failed")
                                  EXCEPT !.location = LocPost(idToUpdate, post)]
               /\ UNCHANGED <<users, nextId, nextUserId, sessions, usersFile,
                              issuedIds, issuedTokens, now>>

\* pathName === '/delete_process'
DeleteProcess_FromIndex(r, ok) ==
    LET post == qsParse(r.body)
        postLoggedInUser == getLoggedInUser(r.cookie)
        uid == UserIds(postLoggedInUser)
        idToDelete == parseInt(post.id)
        topicToDelete == findIndex(topics, idToDelete)
    IN /\ Ended(r, "/delete_process")
       /\ inflight' = inflight (-) SetToBag({r})
       /\ IF postLoggedInUser = {}
          THEN /\ lastResp' = PostResp(r, 500, uid, idToDelete, "none")
               /\ UNCHANGED <<Stores, now>>
          ELSE IF forbidden(topics, topicToDelete, uid)
          THEN /\ lastResp' = PostResp(r, 403, uid, idToDelete, "none")
               /\ UNCHANGED <<Stores, now>>
          ELSE /\ topics' = SubSeq(topics, 1, topicToDelete - 1)
               /\ topicsFile' = saveData(topicsFile, topics', ok)
               /\ lastResp' = [PostResp(r, 302, uid, idToDelete,
                                    IF ok THEN "ok" ELSE "failed")
                                  EXCEPT !.location = LocList(post)]
               /\ UNCHANGED <<users, nextId, nextUserId, sessions, usersFile,
                              issuedIds, issuedTokens, now>>

DeleteProcess(r, ok) ==
    LET post == qsParse(r.body)
        postLoggedInUser == getLoggedInUser(r.cookie)
        uid == UserIds(postLoggedInUser)
        idToDelete == parseInt(post.id)
        topicToDelete == findIndex(topics, idToDelete)
    IN /\ Ended(r, "/delete_process")
       /\ inflight' = inflight (-) SetToBag({r})
       /\ IF postLoggedInUser = {}
          THEN /\ lastResp' = PostResp(r, 500, uid, idToDelete, "none")
               /\ UNCHANGED <<Stores, now>>
          ELSE IF forbidden(topics, topicToDelete, uid)
          THEN /\ lastResp' = PostResp(r, 403, uid, idToDelete, "none")
               /\ UNCHANGED <<Stores, now>>
          ELSE /\ topics' = SelectSeq(topics, LAMBDA t : <<t.id>> # idToDelete)
               /\ topicsFile' = saveData(topicsFile, topics', ok)
               /\ lastResp' = [PostResp(r, 302, uid, idToDelete,
                                    IF ok THEN "ok" ELSE "failed")
                                  EXCEPT !.location = LocList(post)]
               /\ UNCHANGED <<users, nextId, nextUserId, sessions, usersFile,
                              issuedIds, issuedTokens, now>>

\* pathName === '/register_process'
RegisterProcess_WriteDeferred(r, ok) ==
    LET post == qsParse(r.body)
        postLoggedInUser == getLoggedInUser(r.cookie)
        uid == UserIds(postLoggedInUser)
        newUser == [id |-> nextUserId, username |-> post.username,
                    password |-> post.password, nickname |-> post.nickname]
    IN /\ Ended(r, "/register_process")
       /\ inflight' = inflight (-) SetToBag({r})
       /\ IF \/ isEmptyOrWhitespace(post.username)
             \/ isEmptyOrWhitespace(post.password)
             \/ isEmptyOrWhitespace(post.nickname)
          THEN /\ lastResp' = PostResp(r, 400, uid, <<>>, "none")
               /\ UNCHANGED <<Stores, now>>
          ELSE IF usernameTaken(users, post.username)
          THEN /\ lastResp' = PostResp(r, 409, uid, <<>>, "none")
               /\ UNCHANGED <<Stores, now>>
          ELSE /\ nextUserId' = nextUserId + 1
               /\ users' = Append(users, newUser)
               /\ lastResp' = [PostResp(r, 302, uid, <<nextUserId>>,
                                    IF ok THEN "ok" ELSE "failed")
                                  EXCEPT !.location = LocLogin]
               /\ UNCHANGED <<topics, nextId, sessions, topicsFile, usersFile, issuedIds,
                              issuedTokens, now>>

RegisterProcess(r, ok) ==
    LET post == qsParse(r.body)
        postLoggedInUser == getLoggedInUser(r.cookie)
        uid == UserIds(postLoggedInUser)
        newUser == [id |-> nextUserId, username |-> post.username,
                    password |-> post.password, nickname |-> post.nickname]
    IN /\ Ended(r, "/register_process")
       /\ inflight' = inflight (-) SetToBag({r})
       /\ IF \/ isEmptyOrWhitespace(post.username)
             \/ isEmptyOrWhitespace(post.password)
             \/ isEmptyOrWhitespace(post.nickname)
          THEN /\ lastResp' = PostResp(r, 400, uid, <<>>, "none")
               /\ UNCHANGED <<Stores, now>>
          ELSE IF usernameTaken(users, post.username)
          THEN /\ lastResp' = PostResp(r, 409, uid, <<>>, "none")
               /\ UNCHANGED <<Stores, now>>
          ELSE /\ nextUserId' = nextUserId + 1
               /\ users' = Append(users, newUser)
               /\ usersFile' = saveData(usersFile, users', ok)
               /\ lastResp' = [PostResp(r, 302, uid, <<nextUserId>>,
                                    IF ok THEN "ok" ELSE "failed")
                                  EXCEPT !.location = LocLogin]
               /\ UNCHANGED <<topics, nextId, sessions, topicsFile, issuedIds,
                              issuedTokens, now>>


\* generateSessionId: 16 random bytes. Tokens are opaque and a value is
\* generated once: the k-th value generated is named k.
generateSessionId_Constant == {1}

generateSessionId == {Cardinality(issuedTokens) + 1}

\* pathName === '/login_process'
LoginProcess_UsernameOnly(r) ==
    LET post == qsParse(r.body)
        postLoggedInUser == getLoggedInUser(r.cookie)
        uid == UserIds(postLoggedInUser)
        matches == {i \in 1..Len(users) : users[i].username = post.username}
        user == users[CHOOSE i \in matches : \A j \in matches : i <= j]
    IN /\ Ended(r, "/login_process")
       /\ inflight' = inflight (-) SetToBag({r})
       /\ IF matches # {}
          THEN \E sessionId \in generateSessionId :
                 /\ sessions' = [t \in DOMAIN sessions \cup {sessionId} |->
                                    IF t = sessionId THEN user.id ELSE sessions[t]]
                 /\ issuedTokens' = issuedTokens \cup {sessionId}
                 /\ lastResp' = [PostResp(r, 302, uid, <<user.id>>,
                                      "none") EXCEPT !.setCookie = sessionId,
                                                     !.location = LocRoot]
                 /\ UNCHANGED <<topics, users, nextId, nextUserId, topicsFile,
                                usersFile, issuedIds, now>>
          ELSE /\ lastResp' = PostResp(r, 401, uid, <<>>, "none")
               /\ UNCHANGED <<Stores, now>>

LoginProcess(r) ==
    LET post == qsParse(r.body)
        postLoggedInUser == getLoggedInUser(r.cookie)
        uid == UserIds(postLoggedInUser)
        matches == {i \in 1..Len(users) : users[i].username = post.username
                                           /\ users[i].password = post.password}
        user == users[CHOOSE i \in matches : \A j \in matches : i <= j]
    IN /\ Ended(r, "/login_process")
       /\ inflight' = inflight (-) SetToBag({r})
       /\ IF matches # {}
          THEN \E sessionId \in generateSessionId :
                 /\ sessions' = [t \in DOMAIN sessions \cup {sessionId} |->
                                    IF t = sessionId THEN user.id ELSE sessions[t]]
                 /\ issuedTokens' = issuedTokens \cup {sessionId}
                 /\ lastResp' = [PostResp(r, 302, uid, <<user.id>>,
                                      "none") EXCEPT !.setCookie = sessionId,
                                                     !.location = LocRoot]
                 /\ UNCHANGED <<topics, users, nextId, nextUserId, topicsFile,
                                usersFile, issuedIds, now>>
          ELSE /\ lastResp' = PostResp(r, 401, uid, <<>>, "none")
               /\ UNCHANGED <<Stores, now>>

\* A POST whose path matches no branch of the end callback: the callback
\* returns without writing a response (status 0).
PostUnrouted(r) ==
    /\ BagIn(r, inflight) /\ r.pending = <<>>
    /\ r.path \notin {"/create_process", "/update_process", "/delete_process",
                       "/register_process", "/login_process"}
    /\ inflight' = inflight (-) SetToBag({r})
    /\ lastResp' = PostResp(r, 0, {}, <<>>, "none")
    /\ UNCHANGED <<Stores, now>>

\* The process is stopped and started again: lines 18-22 and 50-53 run anew,
\* open connections are lost.
Restart_KeepsSessions(rdT, rdU, okT, okU) ==
    /\ rdT \in ReadOutcomes(topicsFile) /\ rdU \in ReadOutcomes(usersFile)
    /\ topics' = loadData(topicsFile, initialTopics(now), rdT)
    /\ topicsFile' = loadDataFile(topicsFile, initialTopics(now), rdT, okT)
    /\ nextId' = startId(topics')
    /\ users' = loadData(usersFile, <<>>, rdU)
    /\ usersFile' = loadDataFile(usersFile, <<>>, rdU, okU)
    /\ nextUserId' = startId(users')
    /\ inflight' = EmptyBag
    /\ lastResp' = [NoResp EXCEPT !.kind = "restart"]
    /\ UNCHANGED <<sessions, issuedIds, issuedTokens, now>>

Restart(rdT, rdU, okT, okU) ==
    /\ rdT \in ReadOutcomes(topicsFile) /\ rdU \in ReadOutcomes(usersFile)
    /\ topics' = loadData(topicsFile, initialTopics(now), rdT)
    /\ topicsFile' = loadDataFile(topicsFile, initialTopics(now), rdT, okT)
    /\ nextId' = startId(topics')
    /\ users' = loadData(usersFile, <<>>, rdU)
    /\ usersFile' = loadDataFile(usersFile, <<>>, rdU, okU)
    /\ nextUserId' = startId(users')
    /\ sessions' = <<>>
    /\ inflight' = EmptyBag
    /\ lastResp' = [NoResp EXCEPT !.kind = "restart"]
    /\ UNCHANGED <<issuedIds, issuedTokens, now>>

\* ---------------------------------------------------------------- specifications
\* Requests for a path that are between arrival and 'end'.
Pending(path) ==
    BagCardinality([r \in {q \in BagToSet(inflight) : q.path = path} |-> inflight[r]])

\* The environment sends a request that may advance a counter only while the
\* counter stays within its bound.
Admit(path, maxTokens) ==
    /\ path = "/create_process" => nextId + Pending(path) <= MaxId
    /\ path = "/register_process" => nextUserId + Pending(path) <= MaxUserId
    /\ path = "/login_process" => Cardinality(issuedTokens) + Pending(path) < maxTokens

\* Outside SpecRace the environment sends one POST at a time and sends the
\* requests that only read between them: a body that is still being received
\* changes nothing these read. Overlapping POSTs are in SpecRace.
Idle == inflight = EmptyBag

Ends(oks) ==
    \/ \E r \in BagToSet(inflight), ok \in oks : CreateProcess(r, ok)
    \/ \E r \in BagToSet(inflight), ok \in oks : UpdateProcess(r, ok)
    \/ \E r \in BagToSet(inflight), ok \in oks : DeleteProcess(r, ok)

\* Posts in one process lifetime, by the two users found at startup.
Next ==
    \/ Idle /\ \E c \in Cookies, p \in PageInputs, l \in LimitInputs, s \in SortInputs :
                  GetRoot(c, p, l, s)
    \/ Idle /\ \E c \in Cookies, i \in IdInputs : GetUpdate(c, i)
    \/ Idle /\ \E c \in Cookies : NotFound("/nope", c)
    \/ \E c \in Cookies : Logout("POST", c)
    \/ Idle /\ \E path \in {"/create_process", "/update_process", "/delete_process",
                              "/nope"}, c \in Cookies :
                  \E b \in Bodies(path) : Admit(path, MaxLogins) /\ PostArrive(path, c, b)
    \/ Idle /\ \E b \in {LoginBody(Alic, <<"p">>), LoginBody(Bob, <<"p">>)} :
                  Admit("/login_process", MaxLogins) /\ PostArrive("/login_process", NoCookie, b)
    \/ \E r \in BagToSet(inflight) : PostData(r, Len(r.pending))
    \/ Ends({TRUE})
    \/ \E r \in BagToSet(inflight) : LoginProcess(r)
    \/ \E r \in BagToSet(inflight) : PostUnrouted(r)

Spec == Init /\ [][Next]_vars

\* Registrations whose bodies are received concurrently, chunk by chunk.
NextRace ==
    \/ \E b \in RegisterBodies :
          Admit("/register_process", MaxTokens) /\ PostArrive("/register_process", NoCookie, b)
    \/ \E r \in BagToSet(inflight) : \E k \in 1..Len(r.pending) : PostData(r, k)
    \/ \E r \in BagToSet(inflight) : RegisterProcess(r, TRUE)

SpecRace == InitFresh /\ [][NextRace]_vars

\* The same, with requests that keep arriving while the bounds admit them and
\* callbacks that run once they are ready.
SpecRaceFair == InitFresh /\ [][NextRace]_vars /\ WF_vars(NextRace)

\* Registration, login and logout from a first start.
NextSessions ==
    \/ Idle /\ \E b \in {RegisterBody(Alic, <<"p">>, <<"N">>), RegisterBody(Bob, <<"p">>, <<"N">>)} :
                  Admit("/register_process", MaxTokens)
                  /\ PostArrive("/register_process", NoCookie, b)
    \/ Idle /\ \E b \in LoginBodies, c \in Cookies :
                  Admit("/login_process", MaxTokens) /\ PostArrive("/login_process", c, b)
    \/ \E r \in BagToSet(inflight) : PostData(r, Len(r.pending))
    \/ \E r \in BagToSet(inflight) : RegisterProcess(r, TRUE)
    \/ \E r \in BagToSet(inflight) : LoginProcess(r)
    \/ \E m \in Methods, c \in Cookies \cup {Forged} : Logout(m, c)

SpecSessions == InitFresh /\ [][NextSessions]_vars

\* The requests of the specifications with restarts: one user registers,
\* logs in, and creates, edits and deletes posts.
RestartRequests(oks) ==
    \/ Idle /\ \E path \in {"/create_process", "/update_process", "/delete_process"},
                  c \in Cookies :
                  \E b \in Bodies(path) \cap ({CreateBody(<<"H">>, <<"W">>)} \cup
                                               {UpdateBody(i, <<"J">>, <<"W">>) : i \in IdInputs}
                                               \cup DeleteBodies) :
                     Admit(path, MaxTokens) /\ PostArrive(path, c, b)
    \/ Idle /\ Admit("/register_process", MaxTokens)
            /\ PostArrive("/register_process", NoCookie, RegisterBody(Alic, <<"p">>, <<"N">>))
    \/ Idle /\ Admit("/login_process", MaxTokens)
            /\ PostArrive("/login_process", NoCookie, LoginBody(Alic, <<"p">>))
    \/ \E r \in BagToSet(inflight) : PostData(r, Len(r.pending))
    \/ Ends(oks)
    \/ \E r \in BagToSet(inflight), ok \in oks : RegisterProcess(r, ok)
    \/ \E r \in BagToSet(inflight) : LoginProcess(r)

\* Restarts with files that are read and written without error.
NextReboot == RestartRequests({TRUE}) \/ Restart("ok", "ok", TRUE, TRUE) \/ Tick

SpecReboot == InitFresh /\ [][NextReboot]_vars

\* Restarts with file reads and writes that may fail.
NextRestart ==
    \/ RestartRequests(BOOLEAN)
    \/ \E rdT \in {"ok", "EIO", "ENOENT"}, rdU \in {"ok", "EIO", "ENOENT"},
          okT \in BOOLEAN, okU \in BOOLEAN : Restart(rdT, rdU, okT, okU)

SpecRestart == InitFreshWrites /\ [][NextRestart]_vars

\* Posts and logins whose forms carry a list position or none.
RedirectBodies(path) ==
    LET plain == CASE path = "/create_process" -> {CreateBody(<<"H">>, <<"W">>)}
                   [] path = "/update_process" ->
                        {UpdateBody(i, <<"J">>, <<"W">>) : i \in IdInputs}
                   [] path = "/delete_process" -> DeleteBodies
                   [] path = "/login_process" -> {LoginBody(Alic, <<"p">>)}
    IN plain \cup {WithList(b, <<"2">>, <<"5">>, Oldest) : b \in plain}

NextRedirect ==
    \/ Idle /\ \E path \in {"/create_process", "/update_process", "/delete_process"},
                  c \in Cookies :
                  \E b \in RedirectBodies(path) : Admit(path, MaxLogins) /\ PostArrive(path, c, b)
    \/ Idle /\ \E b \in RedirectBodies("/login_process") :
                  Admit("/login_process", MaxLogins) /\ PostArrive("/login_process", NoCookie, b)
    \/ \E r \in BagToSet(inflight) : PostData(r, Len(r.pending))
    \/ Ends({TRUE})
    \/ \E r \in BagToSet(inflight) : LoginProcess(r)

SpecRedirect == Init /\ [][NextRedirect]_vars

\* The list is read page by page, with each page size and sort order.
NextPages ==
    \E p \in {Undefined} \cup {ToStr(i) : i \in 1..(MaxPosts + 1)},
       l \in {Undefined} \cup {ToStr(i) : i \in 1..MaxLimit}, s \in SortInputs :
       GetRoot(NoCookie, p, l, s)

SpecPages == InitPages /\ [][NextPages]_vars

\* alic logs in, edits and deletes posts, and logs out, also while a body is
\* being received; the clock moves.
EditBodies(path) ==
    CASE path = "/update_process" ->
            {UpdateBody(ToStr(i), <<"J">>, <<"W">>) : i \in 1..MaxPosts}
      [] path = "/delete_process" -> {DeleteBody(ToStr(i)) : i \in 1..MaxPosts}

NextEdit ==
    \/ Idle /\ \E path \in {"/update_process", "/delete_process"}, c \in Cookies :
                  \E b \in EditBodies(path) : PostArrive(path, c, b)
    \/ Idle /\ Admit("/login_process", MaxLogins)
            /\ PostArrive("/login_process", NoCookie, LoginBody(Alic, <<"p">>))
    \/ \E r \in BagToSet(inflight) : PostData(r, Len(r.pending))
    \/ \E r \in BagToSet(inflight) : UpdateProcess(r, TRUE)
    \/ \E r \in BagToSet(inflight) : DeleteProcess(r, TRUE)
    \/ \E r \in BagToSet(inflight) : LoginProcess(r)
    \/ \E c \in issuedTokens : Logout("POST", c)
    \/ Tick

SpecEdit == InitEdit /\ [][NextEdit]_vars

\* ---------------------------------------------------------------- claims
\* The step handles the 'end' of request r.
Handled(r) ==
    /\ BagIn(r, inflight) /\ r.pending = <<>>
    /\ inflight' = inflight (-) SetToBag({r})
    /\ lastResp'.kind = r.path /\ lastResp'.cookie = r.cookie

Created == lastResp.kind = "/create_process" /\ lastResp.status = 302
Newest == topics[Len(topics)]

\* The post a request is about (in the collection before the step) is not the
\* requester's: resp is the response, with the user the request resolved to.
NotAuthors(resp) ==
    \E i \in 1..Len(topics) : <<topics[i].id>> = resp.id /\ topics[i].author \notin resp.uid

C6_AuthorIsRequester ==
    Created =>
        /\ lastResp.cookie \in DOMAIN sessions
        /\ Newest.id = lastResp.id[1]
        /\ Newest.author = sessions[lastResp.cookie]
        /\ Newest.author # 0
        /\ Newest.author \in Ids(users)

C6_Witness == Created /\ Newest.author = sessions[lastResp.cookie] /\ Newest.author = 2

\* C9 as claimed: a request for a path that is not routed, GET or POST, has
\* been answered with the 404 page once its handlers have run.
C9_Original == lastResp.kind = "/nope" => lastResp.status = 404

\* C10: a /create_process whose cookie resolves to no user is answered 500, one
\* by a logged-in user with a missing or blank title or description 400; both
\* leave the posts, the post-id counter and topics.json unchanged.
C10_CreateRejected ==
    [][ \A r \in BagToSet(inflight) :
          (Handled(r) /\ r.path = "/create_process") =>
            LET post == qsParse(r.body)
                nouser == r.cookie \notin DOMAIN sessions
                blank(f) == f = Undefined \/ \A i \in 1..Len(f) : IsWs(f[i])
            IN /\ nouser =>
                    /\ lastResp'.status = 500
                    /\ UNCHANGED <<topics, nextId, topicsFile>>
               /\ (~nouser /\ (blank(post.title) \/ blank(post.description))) =>
                    /\ lastResp'.status = 400
                    /\ UNCHANGED <<topics, nextId, topicsFile>> ]_vars

C10_Witness ==
    lastResp.kind = "/create_process" /\ lastResp.status = 400 /\ lastResp.uid # {}

\* C3 as claimed: a /register_process whose username is that of a user in the
\* collection is answered 409 and leaves the users and the user-id counter
\* unchanged.
C3_Original ==
    [][ \A r \in BagToSet(inflight) :
          (Handled(r) /\ r.path = "/register_process"
             /\ \E i \in 1..Len(users) : users[i].username = qsParse(r.body).username) =>
            (lastResp'.status = 409 /\ UNCHANGED <<users, nextUserId>>) ]_vars

\* C3 amended: such a request leaves the users, the user-id counter and
\* users.json unchanged; it is answered 409 when its password and nickname are
\* not blank, and 400 when one of them is missing or blank.
C3_DuplicateRefused ==
    [][ \A r \in BagToSet(inflight) :
          (Handled(r) /\ r.path = "/register_process"
             /\ \E i \in 1..Len(users) : users[i].username = qsParse(r.body).username) =>
            LET post == qsParse(r.body)
                blank(f) == f = Undefined \/ \A i \in 1..Len(f) : IsWs(f[i])
            IN /\ UNCHANGED <<users, nextUserId, usersFile>>
               /\ lastResp'.status =
                     IF blank(post.password) \/ blank(post.nickname) THEN 400 ELSE 409 ]_vars

C3_Witness ==
    /\ lastResp.kind = "/register_process" /\ lastResp.status = 409
    /\ Len(users) = 1 /\ nextUserId = 2

\* C4: no two users in the collection have the same username, also when
\* registrations with the same username are received concurrently.
C4_UsernamesUnique ==
    \A i, j \in 1..Len(users) : users[i].username = users[j].username => i = j

\* A registration was handled while another with the same username was being
\* received.
C4_Witness ==
    /\ lastResp.kind = "/register_process" /\ lastResp.status = 302
    /\ \E r \in BagToSet(inflight) :
          /\ Len(r.body) > 0 /\ Len(r.pending) > 0
          /\ qsParse(r.body \o r.pending).username = users[Len(users)].username

\* C5: the token a matching login sets resolves to that user's id until a
\* /logout_process carrying it is handled, and to no user from then on.
C5_SessionLifetime ==
    [][ /\ \A r \in BagToSet(inflight) :
             (Handled(r) /\ r.path = "/login_process" /\ lastResp'.status = 302) =>
                /\ \E i \in 1..Len(users) :
                      /\ users[i].username = qsParse(r.body).username
                      /\ users[i].password = qsParse(r.body).password
                      /\ \E t \in DOMAIN sessions' :
                            /\ t = lastResp'.setCookie
                            /\ UserIds(getLoggedInUser(t))' = {users[i].id}
                /\ lastResp'.setCookie \notin issuedTokens
        /\ \A t \in issuedTokens :
             /\ (getLoggedInUser(t) # {}
                   /\ ~(lastResp'.kind = "/logout_process" /\ lastResp'.cookie = t)) =>
                  UserIds(getLoggedInUser(t))' = UserIds(getLoggedInUser(t))
             /\ (lastResp'.kind = "/logout_process" /\ lastResp'.cookie = t) =>
                  getLoggedInUser(t)' = {}
             /\ getLoggedInUser(t) = {} => getLoggedInUser(t)' = {} ]_vars

C5_Witness ==
    /\ lastResp.kind = "/logout_process" /\ lastResp.cookie \in issuedTokens
    /\ getLoggedInUser(lastResp.cookie) = {}
    /\ \E t \in issuedTokens : UserIds(getLoggedInUser(t)) = {1}

\* C7 as claimed: across creations, deletions and restarts the post-id
\* counter never decreases and no post id is assigned a second time.
C7_Original ==
    [][ /\ nextId' >= nextId
        /\ Created' => lastResp'.id[1] \notin issuedIds ]_vars

\* C8: when a mutating request is answered 302 and its file write did not
\* fail, the file holds the collection in memory.
C8_FileMatchesMemory ==
    (lastResp.status = 302 /\ lastResp.wrote = "ok") =>
        /\ lastResp.kind \in {"/create_process", "/update_process", "/delete_process"} =>
              topicsFile = [exists |-> TRUE, data |-> topics]
        /\ lastResp.kind = "/register_process" =>
              usersFile = [exists |-> TRUE, data |-> users]

\* A write succeeded after an earlier one had failed.
C8_Witness ==
    /\ lastResp.kind = "/delete_process" /\ lastResp.status = 302 /\ lastResp.wrote = "ok"
    /\ topicsFile.data = topics /\ Len(topics) = 1 /\ nextId = 3

\* The pair a login request submits is exactly the pair of a user record.
ExactMatch(r) ==
    \E i \in 1..Len(users) : /\ users[i].username = qsParse(r.body).username
                              /\ users[i].password = qsParse(r.body).password

\* C11: a /login_process whose pair matches no user record exactly is answered
\* 401, sets no cookie and leaves the session table unchanged; the table gets
\* a new entry only in a step that handles a login whose pair matches.
C11_BadLoginRefused ==
    [][ /\ \A r \in BagToSet(inflight) :
             (Handled(r) /\ r.path = "/login_process" /\ ~ExactMatch(r)) =>
                /\ lastResp'.status = 401
                /\ lastResp'.setCookie = NoCookie
                /\ sessions' = sessions
        /\ (\E t \in DOMAIN sessions' : t \notin DOMAIN sessions \/ sessions'[t] # sessions[t]) =>
             \E r \in BagToSet(inflight) :
                Handled(r) /\ r.path = "/login_process" /\ ExactMatch(r) ]_vars

\* A login was refused while the name it gave is registered and another
\* session is open.
C11_Witness ==
    /\ lastResp.kind = "/login_process" /\ lastResp.status = 401
    /\ usernameTaken(users, Alic) /\ DOMAIN sessions # {}

\* C12: a post whose author is 0 stays in the collection as it is through
\* every step; user ids and the ids sessions resolve to are at least 1; an
\* /update_process or /delete_process aimed at such a post is refused (403 for
\* a logged-in user, 500 without a session) and changes no post.
C12_SystemPostKept ==
    /\ [](/\ \A i \in 1..Len(users) : users[i].id >= 1
          /\ \A t \in DOMAIN sessions : sessions[t] >= 1)
    /\ [][ \A i \in 1..Len(topics) : topics[i].author = 0 =>
             /\ \E j \in 1..Len(topics') : topics'[j] = topics[i]
             /\ (lastResp'.kind \in {"/update_process", "/delete_process"}
                   /\ lastResp'.id = <<topics[i].id>>) =>
                  /\ lastResp'.status = IF lastResp'.uid # {} THEN 403 ELSE 500
                  /\ topics' = topics /\ topicsFile' = topicsFile ]_vars

\* A logged-in user's update of the system post was refused.
C12_Witness ==
    /\ lastResp.kind = "/update_process" /\ lastResp.status = 403
    /\ lastResp.uid # {} /\ lastResp.id = <<1>>
    /\ topics[1].id = 1 /\ topics[1].author = 0

\* The request submits a page, a limit and a sort.
SubmitsList(r) ==
    \A k \in {"page", "limit", "sort"} : qsParse(r.body)[k] \notin {Undefined, <<>>}

\* The Location ends with the three values the request submitted.
CarriesList(loc, r) ==
    LET post == qsParse(r.body)
        q == <<"p", "a", "g", "e", "=">> \o post.page
             \o <<"&", "l", "i", "m", "i", "t", "=">> \o post.limit
             \o <<"&", "s", "o", "r", "t", "=">> \o post.sort
    IN Len(loc) >= Len(q) /\ SubSeq(loc, Len(loc) - Len(q) + 1, Len(loc)) = q

\* C13 as claimed: the redirect that answers a create, an edit, a delete or a
\* login carries in its Location the page, limit and sort the request
\* submitted.
C13_Original ==
    [][ \A r \in BagToSet(inflight) :
          (Handled(r) /\ lastResp'.status = 302 /\ SubmitsList(r)
             /\ r.path \in {"/create_process", "/update_process", "/delete_process",
                             "/login_process"}) =>
            CarriesList(lastResp'.location, r) ]_vars

RECURSIVE ConcatPages(_, _, _)
ConcatPages(sorted, limit, n) ==
    IF n = 0 THEN <<>>
    ELSE ConcatPages(sorted, limit, n - 1) \o pagedTopics(sorted, n, limit)

\* C14: for the collection of every state and every limit from 1, the pages 1
\* to ceil(total / limit) that GET / slices, one after the other, are the
\* sorted sequence, which holds each post of the collection once.
C14_PagesCoverList ==
    \A limit \in 1..(MaxLimit + 1), sort \in {"latest", "oldest"} :
        LET sorted == sortTopics(topics, sort)
        IN /\ ConcatPages(sorted, limit, totalPages(Len(sorted), limit)) = sorted
           /\ Len(sorted) = Len(topics)
           /\ \A i \in 1..Len(topics) : \E j \in 1..Len(sorted) : sorted[j] = topics[i]

\* GET / showed the last, shorter page of a collection of three.
C14_Witness ==
    /\ lastResp.kind = "/" /\ lastResp.page = 2 /\ lastResp.limit = 2
    /\ Len(topics) = 3 /\ Len(lastResp.listed) = 1

Reverse(seq) == [i \in 1..Len(seq) |-> seq[Len(seq) + 1 - i]]
DistinctStamps ==
    \A i, j \in 1..Len(topics) : topics[i].created_at = topics[j].created_at => i = j

\* C15: when the created_at of the collection are pairwise distinct, sorting
\* by 'oldest' what sorting by 'latest' returned gives the 'latest' order
\* reversed; a GET /, which sorts, leaves the collection in its order.
C15_OldestReversesLatest ==
    /\ [](DistinctStamps =>
            sortTopics(sortTopics(topics, "latest"), "oldest")
               = Reverse(sortTopics(topics, "latest")))
    /\ [][lastResp'.kind = "/" => topics' = topics]_vars

\* GET / listed three posts with distinct created_at oldest first, an order
\* that is neither the stored one nor its reverse.
C15_Witness ==
    /\ lastResp.kind = "/" /\ Len(topics) = 3 /\ DistinctStamps
    /\ lastResp.listed = [i \in 1..3 |-> sortTopics(topics, "oldest")[i].id]
    /\ lastResp.listed \notin {<<1, 2, 3>>, <<3, 2, 1>>}

\* C16: a /logout_process is answered 302 to / and changes nothing but the
\* session table; one that carries no cookie, or a token that is not in the
\* table, leaves the table as it is; one that repeats the logout just handled
\* leaves the whole state as the first left it.
C16_LogoutIdempotent ==
    [][ lastResp'.kind = "/logout_process" =>
          /\ lastResp'.status = 302 /\ lastResp'.location = LocRoot
          /\ UNCHANGED <<topics, users, nextId, nextUserId, topicsFile, usersFile>>
          /\ (lastResp'.cookie = NoCookie \/ lastResp'.cookie \notin DOMAIN sessions) =>
                sessions' = sessions
          /\ \A t \in DOMAIN sessions' : t \in DOMAIN sessions /\ sessions'[t] = sessions[t]
          /\ (lastResp.kind = "/logout_process" /\ lastResp.cookie = lastResp'.cookie
                 /\ lastResp.method = lastResp'.method) => UNCHANGED vars ]_vars

\* A logout with a token that was never issued was handled while a session is
\* open.
C16_Witness ==
    /\ lastResp.kind = "/logout_process" /\ lastResp.cookie = Forged
    /\ lastResp.status = 302 /\ DOMAIN sessions # {}

AlnumChars ==
    {"a", "b", "c", "d", "e", "f", "g", "h", "i", "j", "k", "l", "m",
     "n", "o", "p", "q", "r", "s", "t", "u", "v", "w", "x", "y", "z",
     "A", "B", "C", "D", "E", "F", "G", "H", "I", "J", "K", "L", "M",
     "N", "O", "P", "Q", "R", "S", "T", "U", "V", "W", "X", "Y", "Z",
     "0", "1", "2", "3", "4", "5", "6", "7", "8", "9"}

\* C17 as claimed: every stored username consists of letters and digits only
\* and has at least 4 characters.
C17_Original ==
    \A i \in 1..Len(users) :
        /\ Len(users[i].username) >= 4
        /\ \A k \in 1..Len(users[i].username) : users[i].username[k] \in AlnumChars

\* The mutation request r asked for is in the collections after the step.
Applied(r) ==
    LET post == qsParse(r.body)
    IN CASE r.path = "/create_process" ->
              /\ Len(topics') = Len(topics) + 1 /\ SubSeq(topics', 1, Len(topics)) = topics
              /\ topics'[Len(topics')].title = post.title /\ nextId' = nextId + 1
         [] r.path = "/update_process" ->
              \E i \in 1..Len(topics) :
                  /\ <<topics[i].id>> = lastResp'.id /\ Len(topics') = Len(topics)
                  /\ topics'[i].title = post.title
                  /\ topics'[i].description = post.description
         [] r.path = "/delete_process" ->
              /\ Len(topics') < Len(topics)
              /\ \A j \in 1..Len(topics') : <<topics'[j].id>> # lastResp'.id
         [] r.path = "/register_process" ->
              /\ Len(users') = Len(users) + 1 /\ SubSeq(users', 1, Len(users)) = users
              /\ users'[Len(users')].username = post.username /\ nextUserId' = nextUserId + 1
         [] OTHER -> FALSE

\* C18: when the write of a create, update, delete or register fails, the
\* request is answered 302, its mutation is in memory and both files are as
\* they were; a file changes only in a step whose write succeeds (or when a
\* restart writes the initial data of a missing file).
C18_WriteFailureHidden ==
    [][ /\ \A r \in BagToSet(inflight) :
             (Handled(r) /\ lastResp'.wrote = "failed") =>
                /\ lastResp'.status = 302
                /\ Applied(r)
                /\ UNCHANGED <<topicsFile, usersFile>>
        /\ (topicsFile' # topicsFile \/ usersFile' # usersFile) =>
             (lastResp'.wrote = "ok" \/ lastResp'.kind = "restart") ]_vars

\* An update was answered 302 although its write failed: memory and file
\* differ.
C18_Witness ==
    /\ lastResp.kind = "/update_process" /\ lastResp.status = 302
    /\ lastResp.wrote = "failed" /\ topicsFile.data # topics

\* A collection in memory differs from its file: a mutation is waiting for its
\* write.
Unwritten == users # usersFile.data \/ topics # topicsFile.data

C20_RestartEmptiesSessions ==
    [][ /\ lastResp'.kind = "restart" =>
             /\ sessions' = <<>>
             /\ \A t \in issuedTokens : getLoggedInUser(t)' = {}
             /\ topics' = topicsFile.data /\ users' = usersFile.data
             /\ UNCHANGED <<topicsFile, usersFile>>
        /\ \A t \in issuedTokens :
             getLoggedInUser(t) = {} => getLoggedInUser(t)' = {} ]_vars

\* A restart after a user registered, logged in and created a post: the
\* token is dead, user and post are back from the files.
C20_Witness ==
    /\ lastResp.kind = "restart" /\ issuedTokens # {} /\ sessions = <<>>
    /\ Len(users) = 1 /\ Len(topics) = 2

\* C21: an /update_process answered 302 changes the title, the description
\* and updated_at of the post with the submitted id and nothing else: that
\* post's id, author and created_at, the other posts, the two counters, the
\* users and the session table are as before.
C21_UpdateFrame ==
    [][ \A r \in BagToSet(inflight) :
          (Handled(r) /\ r.path = "/update_process" /\ lastResp'.status = 302) =>
            LET post == qsParse(r.body)
            IN /\ \E i \in 1..Len(topics) :
                     /\ <<topics[i].id>> = parseInt(post.id)
                     /\ Len(topics') = Len(topics)
                     /\ \A j \in 1..Len(topics) : j # i => topics'[j] = topics[j]
                     /\ topics'[i].id = topics[i].id
                     /\ topics'[i].author = topics[i].author
                     /\ topics'[i].created_at = topics[i].created_at
                     /\ topics'[i].title = post.title
                     /\ topics'[i].description = post.description
               /\ UNCHANGED <<nextId, nextUserId, users, sessions>> ]_vars

\* An update by the author, later than the post's creation, with the other
\* posts in place.
C21_Witness ==
    /\ lastResp.kind = "/update_process" /\ lastResp.status = 302 /\ Len(topics) >= 3
    /\ \E i \in 1..Len(topics) :
          /\ <<topics[i].id>> = lastResp.id /\ topics[i].title = <<"J">>
          /\ topics[i].updated_at > topics[i].created_at

\* C22: a /delete_process answered 302 removes the post with the submitted id
\* and nothing else: the posts before and after it stay, as they were and in
\* their order; the two counters, the users and the session table are as
\* before.
C22_DeleteFrame ==
    [][ \A r \in BagToSet(inflight) :
          (Handled(r) /\ r.path = "/delete_process" /\ lastResp'.status = 302) =>
            /\ \E i \in 1..Len(topics) :
                  /\ <<topics[i].id>> = parseInt(qsParse(r.body).id)
                  /\ topics' = SubSeq(topics, 1, i - 1) \o SubSeq(topics, i + 1, Len(topics))
            /\ UNCHANGED <<nextId, nextUserId, users, sessions>> ]_vars

\* The author deleted post 2 of three: posts 1 and 3 are left.
C22_Witness ==
    /\ lastResp.kind = "/delete_process" /\ lastResp.status = 302 /\ lastResp.id = <<2>>
    /\ Len(topics) >= 2 /\ topics[1].id = 1 /\ topics[2].id = 3

\* C23 as claimed: every post in the collection has a title and a description
\* that are present and not blank.
C23_Original ==
    \A i \in 1..Len(topics) :
        ~isEmptyOrWhitespace(topics[i].title) /\ ~isEmptyOrWhitespace(topics[i].description)

\* C24 as claimed: an entry leaves the session table only in a step that
\* handles a POST to /logout_process; a GET, to /logout_process or any other
\* path, leaves the table unchanged.
C24_Original ==
    [][ /\ (\E t \in DOMAIN sessions : t \notin DOMAIN sessions') =>
             (lastResp'.kind = "/logout_process" /\ lastResp'.method = "POST")
        /\ lastResp'.method = "GET" => sessions' = sessions ]_vars

\* C25: when the token of a /create_process, /update_process or
\* /delete_process resolved to a user as the request arrived and resolves to
\* none as its body ends, the request is answered 500 and the stores are
\* unchanged; the author of a post that is created is the user the token
\* resolves to at the end of the body.
C25_IdentityAtEnd ==
    [][ \A r \in BagToSet(inflight) :
          (Handled(r) /\ r.path \in {"/create_process", "/update_process",
                                      "/delete_process"}) =>
            /\ (r.loggedInUser # {} /\ getLoggedInUser(r.cookie) = {}) =>
                  /\ lastResp'.status = 500
                  /\ UNCHANGED <<topics, users, nextId, nextUserId, topicsFile,
                                 usersFile, sessions>>
            /\ (r.path = "/create_process" /\ lastResp'.status = 302) =>
                  topics'[Len(topics')].author \in UserIds(getLoggedInUser(r.cookie)) ]_vars

\* A create whose token was logged out while its body was being received
\* was refused.
C25_Witness ==
    /\ lastResp.kind = "/create_process" /\ lastResp.status = 500
    /\ lastResp.arrived # {} /\ lastResp.uid = {}
    /\ lastResp.cookie \in issuedTokens /\ lastResp.cookie \notin DOMAIN sessions

\* C26: a login that succeeds sets a token that is not in the session table
\* and was never issued, and leaves the entries of the table as they are; a
\* /logout_process leaves every entry but the one of the token it carries,
\* and each of those tokens resolves to the user it resolved to.
C26_SessionsIndependent ==
    [][ /\ \A r \in BagToSet(inflight) :
             (Handled(r) /\ r.path = "/login_process" /\ lastResp'.status = 302) =>
                /\ lastResp'.setCookie \notin DOMAIN sessions
                /\ lastResp'.setCookie \notin issuedTokens
                /\ lastResp'.setCookie \in DOMAIN sessions'
                /\ \A t \in DOMAIN sessions :
                      t \in DOMAIN sessions' /\ sessions'[t] = sessions[t]
        /\ lastResp'.kind = "/logout_process" =>
             \A t \in DOMAIN sessions \ {lastResp'.cookie} :
                /\ t \in DOMAIN sessions' /\ sessions'[t] = sessions[t]
                /\ UserIds(getLoggedInUser(t))' = UserIds(getLoggedInUser(t)) ]_vars

\* The only user logged in twice and logged out with one of the two tokens:
\* the other still resolves to the user.
C26_Witness ==
    /\ lastResp.kind = "/logout_process" /\ Len(users) = 1
    /\ lastResp.cookie \in issuedTokens \ DOMAIN sessions
    /\ \E t \in DOMAIN sessions : t # lastResp.cookie /\ sessions[t] = users[1].id

====
